---- MODULE Spec2Model ----
(***************************************************************************)
(* Model of src-tauri/src/main.rs of the SexLab Scene Builder: the         *)
(* process-wide Package (PROJECT), the dirty flag (EDITED), the menu and   *)
(* window event listeners, the tauri commands, and the stage-editor        *)
(* windows with their one-shot "on_request_data" handshake.                *)
(*                                                                         *)
(* Every handler runs to completion as one step.  A menu dialog shown with *)
(* the callback form .show(..) is two handlers: the one that shows it and  *)
(* returns, and the callback that runs when the user answers.              *)
(*                                                                         *)
(* Not in main.rs, and modelled from the design document: the methods of   *)
(* Package (the Package_ operators), Stage::new, and the frontend of a     *)
(* stage-editor window, whose ready signal is taken to reach the listener *)
(* registered on that window and no other (Ready).  set_title, emit,      *)
(* emit_to and close are taken to succeed.                                 *)
(***************************************************************************)
EXTENDS Integers, Sequences, FiniteSets, TLC

\* ---------------------------------------------------------------- bounds
NumScenes  == 2      \* scene identifiers 1..NumScenes
NumStages  == 2      \* stage identifiers 1..NumStages
MaxOpens   == 2      \* stage-editor windows created in one run
MaxPrompts == 1      \* confirmation dialogs of one kind waiting at once
NumWorkers == 1      \* threads of the async runtime that run commands

SceneIds   == 1..NumScenes
StageIds   == 1..NumStages
PositionSets == {"p0", "p1"}      \* a scene's Vec<PositionInfo>
PackNames  == {"", "Pack"}        \* Package.pack_name; "" is String::default()

\* ------------------------------------------------------- program constants
DEFAULT_MAINWINDOW_TITLE == "SexLab Scene Builder"
MAIN_WINDOW  == "main_window"
NEW_PROJECT  == "new_prjct"
OPEN_PROJECT == "open_prjct"
DARKMODE     == "darkmode"

\* A window handle is a number: MainId is the window labelled MAIN_WINDOW, a
\* positive number the n-th stage-editor window the process created; AppId
\* stands for the AppHandle where an event is emitted through it.
MainId == 0
AppId  == 0 - 1
NoTarget == ""       \* Emitter::emit names no target; emit_to names a label

\* ------------------------------------------------------------ data model
Scene == [id : SceneIds, positions : PositionSets]
\* the stages that exist when an editor is opened: the first is named, the
\* others are not
StageName(i) == IF i = 1 THEN "Intro" ELSE ""
Stage == {[id |-> i, name |-> StageName(i)] : i \in StageIds}

Ids(scenes) == {scenes[i].id : i \in 1..Len(scenes)}

RECURSIVE SeqsUpTo(_, _)
SeqsUpTo(S, n) ==
    IF n = 0 THEN {<<>>}
    ELSE LET shorter == SeqsUpTo(S, n - 1)
         IN  shorter \cup {Append(s, x) : s \in {t \in shorter : Len(t) = n - 1}, x \in S}

\* Scene lists a project file can hold: identifiers unique within a Package.
SceneLists ==
    {s \in SeqsUpTo(Scene, NumScenes) : Cardinality(Ids(s)) = Len(s)}

Package == [pack_name : PackNames, scenes : SceneLists]

\* Package::new()
Package_new == [pack_name |-> "", scenes |-> <<>>]

VARIABLES
    PROJECT,      \* the Package behind the PROJECT mutex
    EDITED,       \* the dirty flag
    IS_DARKMODE,  \* the dark mode flag
    mainTitle,    \* title of the main window, as the pieces it was formatted from
    windows,      \* live stage-editor windows: [uid, label, title]
    listeners,    \* registered one-shot "on_request_data" listeners: [uid, payload]
    nextUid,      \* number of stage-editor windows created so far
    prompts,      \* menu confirmation dialogs waiting for an answer, per menu id
    running,      \* FALSE once the process has exited
    delivered,    \* per created window: "on_data_received" emissions of its listener
    handed,       \* per live window: the payload it was opened with (else {})
    lock,         \* the thread that holds the PROJECT mutex, as a set (else {})
    thr,          \* per thread: where it stands in the handler it runs
    unsaved,      \* a command changed the Package since the last successful save
    op,           \* the handler that ran last, with its caller and argument
    ret,          \* what that handler returned
    logged,       \* the log lines it wrote
    emitted       \* the events and window messages it sent, in order

document == <<PROJECT, EDITED, mainTitle>>
stagewin == <<windows, listeners, nextUid, delivered, handed>>
conc == <<lock, thr, unsaved>>
vars == <<PROJECT, EDITED, IS_DARKMODE, mainTitle, windows, listeners, nextUid,
          prompts, running, delivered, handed, lock, thr, unsaved,
          op, ret, logged, emitted>>

\* The threads: the main thread runs the menu and window event listeners
\* and the commands that are not async; the workers run the async commands;
\* a dialog thread waits for the answer to one menu dialog and runs its
\* callback.
MainThread == 0
Workers == 1..NumWorkers
DialogThreads == {NumWorkers + j : j \in 1..MaxPrompts}
Threads == {MainThread} \cup Workers \cup DialogThreads
\* A thread's record: the handler it runs (cmd), where it stands in it (at),
\* the handler's arguments and locals (arg), and how often the handler has
\* locked PROJECT so far (n).
Idle == [cmd |-> "", at |-> "idle", arg |-> <<>>, n |-> 0]
Cmd(cmd, at, arg) == [cmd |-> cmd, at |-> at, arg |-> arg, n |-> 0]

Unit == [ok |-> TRUE, val |-> "()"]
Ok(v)  == [ok |-> TRUE, val |-> v]
Err(v) == [ok |-> FALSE, val |-> v]

Init ==
    /\ PROJECT = Package_new
    /\ EDITED = FALSE
    /\ IS_DARKMODE = FALSE
    /\ mainTitle = <<DEFAULT_MAINWINDOW_TITLE>>
    /\ windows = {}
    /\ listeners = {}
    /\ nextUid = 0
    /\ prompts = [k \in {NEW_PROJECT, OPEN_PROJECT} |-> 0]
    /\ running = TRUE
    /\ delivered = [u \in 1..MaxOpens |-> 0]
    /\ handed = [u \in 1..MaxOpens |-> {}]
    /\ lock = {}
    /\ thr = [t \in Threads |-> Idle]
    /\ unsaved = FALSE
    /\ op = [name |-> "main", caller |-> MainId, arg |-> <<>>]
    /\ ret = Unit
    /\ logged = <<>>
    /\ emitted = <<>>

Did(name, caller, arg, r, lg, em) ==
    /\ op' = [name |-> name, caller |-> caller, arg |-> arg]
    /\ ret' = r
    /\ logged' = lg
    /\ emitted' = em

Event(name, via, to, payload) ==
    [event |-> name, via |-> via, to |-> to, payload |-> payload]

\* ------------------------------------------------- static flags, titles
set_edited(val) == EDITED' = val
\* (the getter of the other flag)
get_edited_wrong_flag == IS_DARKMODE
get_edited == EDITED

set_darkmode(val) == IS_DARKMODE' = val
get_darkmode == IS_DARKMODE

Callers == {MainId} \cup {w.uid : w \in windows}
WindowOf(u) == CHOOSE w \in windows : w.uid = u
Title(u) == IF u = MainId THEN mainTitle ELSE WindowOf(u).title

\* The windows an emitted event is sent to.  Emitter::emit(event, payload)
\* emits to all targets, whichever handle it is called on: every window of
\* the process; emit_to(MAIN_WINDOW, ..) emits to the main window.
Targets(e) ==
    IF e.to = NoTarget THEN Callers
    ELSE IF e.to = MAIN_WINDOW THEN {MainId} ELSE {}

set_title(u, t) ==
    IF u = MainId
    THEN mainTitle' = t /\ windows' = windows
    ELSE /\ mainTitle' = mainTitle
         /\ windows' = {IF w.uid = u THEN [w EXCEPT !.title = t] ELSE w : w \in windows}

ends_with_star(t) == t[Len(t)] = "*"

\* if let Ok(title) = window.title() { if !title.ends_with('*') { set_title(title + "*") } }
star_title(u, titleOk) ==
    IF titleOk /\ ~ends_with_star(Title(u))
    THEN set_title(u, Append(Title(u), "*"))
    ELSE UNCHANGED <<mainTitle, windows>>

\* the title reload_project gives the main window
ReloadTitle(pack_name) ==
    IF pack_name = ""
    THEN <<DEFAULT_MAINWINDOW_TITLE>>
    ELSE <<DEFAULT_MAINWINDOW_TITLE, " - ", pack_name>>

\* the title the save arm gives the main window
SaveTitle(pack_name) == <<DEFAULT_MAINWINDOW_TITLE, " - ", pack_name>>

\* ------------------------------------------------------------- Package
\* upsert_scene: replace the scene sharing the identifier in place, else append
Package_save_scene(pkg, scene) ==
    IF scene.id \in Ids(pkg.scenes)
    THEN [pkg EXCEPT !.scenes =
            [i \in 1..Len(pkg.scenes) |->
                IF pkg.scenes[i].id = scene.id THEN scene ELSE pkg.scenes[i]]]
    ELSE [pkg EXCEPT !.scenes = Append(pkg.scenes, scene)]

\* remove_scene: the Package without the scene, and the scene removed (Option)
Package_discard_scene(pkg, id) ==
    LET keep == SelectSeq(pkg.scenes, LAMBDA s : s.id # id)
        gone == SelectSeq(pkg.scenes, LAMBDA s : s.id = id)
    IN  [pkg |-> [pkg EXCEPT !.scenes = keep], removed |-> gone]

\* reset: an empty default Package, never fails
Package_reset(pkg) == Package_new

\* An outcome of an external collaborator is an Option: {} is its failure,
\* {v} its success with v.
\* load: the file reader's outcome replaces the Package wholesale, or fails
\* and leaves it untouched
\* (the files tried hold scenes whose positions are all "p0")
LoadOutcomes ==
    {{}} \cup {{p} : p \in {q \in Package :
                    \A i \in 1..Len(q.scenes) : q.scenes[i].positions = "p0"}}
Package_load_project(pkg, outcome) ==
    IF outcome # {}
    THEN [pkg |-> CHOOSE p \in outcome : TRUE, result |-> Unit]
    ELSE [pkg |-> pkg, result |-> Err("load failed")]

\* save: the file writer's outcome; the scenes are not changed, the pack name
\* is the one the project was written under
SaveOutcomes == {{}} \cup {{n} : n \in PackNames \ {""}}
Package_save_project(pkg, save_as, outcome) ==
    IF outcome # {}
    THEN [pkg |-> [pkg EXCEPT !.pack_name =
                      IF save_as \/ pkg.pack_name = ""
                      THEN CHOOSE n \in outcome : TRUE ELSE @],
          result |-> Unit]
    ELSE [pkg |-> pkg, result |-> Err("save failed")]

\* import_offset: merges offset data into the scenes (same scenes, same
\* order, new content), or aborts with no partial mutation
ImportOutcomes(pkg) ==
    {{}} \cup
    {{s} : s \in {t \in SceneLists :
                      /\ Len(t) = Len(pkg.scenes)
                      /\ \A i \in 1..Len(t) : t[i].id = pkg.scenes[i].id}}
Package_import_offset(pkg, outcome) ==
    IF outcome # {}
    THEN [pkg |-> [pkg EXCEPT !.scenes = CHOOSE t \in outcome : TRUE], result |-> Unit]
    ELSE [pkg |-> pkg, result |-> Err("import failed")]

\* export: writes the build format; the Package is borrowed immutably
Package_export(pkg, outcome) ==
    IF outcome THEN Unit ELSE Err("export failed")

Error(msg) == [level |-> "error", msg |-> msg]
Info(msg)  == [level |-> "info", msg |-> msg]

\* ------------------------------------------------------ reload_project
\* the file reader fails: prjct.load_project(..) is an Err
load_fails(reload_type, outcome) == reload_type = OPEN_PROJECT /\ outcome = {}

\* (a reload_project that emits the scenes before it resets or loads)
reload_project_stale(reload_type, outcome) ==
    LET r == CASE reload_type = NEW_PROJECT ->
                    [pkg |-> Package_reset(PROJECT), result |-> Unit]
               [] reload_type = OPEN_PROJECT ->
                    Package_load_project(PROJECT, outcome)
               [] OTHER ->
                    [pkg |-> PROJECT, result |-> Err("Invalid reload type")]
    IN  IF ~r.result.ok
        THEN /\ logged' = <<Error(<<r.result.val>>)>>
             /\ emitted' = <<>>
             /\ UNCHANGED <<PROJECT, mainTitle>>
        ELSE /\ PROJECT' = r.pkg
             /\ mainTitle' = ReloadTitle(r.pkg.pack_name)
             /\ logged' = <<>>
             /\ emitted' = <<Event("on_project_update", MainId, NoTarget, PROJECT.scenes)>>

\* (a reload_project without the early return: the title is set and the
\* scenes are emitted whatever the result)
reload_project_no_return(reload_type, outcome) ==
    LET r == CASE reload_type = NEW_PROJECT ->
                    [pkg |-> Package_reset(PROJECT), result |-> Unit]
               [] reload_type = OPEN_PROJECT ->
                    Package_load_project(PROJECT, outcome)
               [] OTHER ->
                    [pkg |-> PROJECT, result |-> Err("Invalid reload type")]
    IN  /\ PROJECT' = r.pkg
        /\ mainTitle' = ReloadTitle(r.pkg.pack_name)
        /\ logged' = IF r.result.ok THEN <<>> ELSE <<Error(<<r.result.val>>)>>
        /\ emitted' = <<Event("on_project_update", MainId, NoTarget, r.pkg.scenes)>>

\* The part of reload_project that runs under the PROJECT lock: PROJECT,
\* the main window's title, the log and the broadcast.
reload_project(reload_type, outcome) ==
    LET r == CASE reload_type = NEW_PROJECT ->
                    [pkg |-> Package_reset(PROJECT), result |-> Unit]
               [] reload_type = OPEN_PROJECT ->
                    Package_load_project(PROJECT, outcome)
               [] OTHER ->
                    [pkg |-> PROJECT, result |-> Err("Invalid reload type")]
    IN  IF ~r.result.ok
        THEN /\ logged' = <<Error(<<r.result.val>>)>>
             /\ emitted' = <<>>
             /\ UNCHANGED <<PROJECT, mainTitle>>
        ELSE /\ PROJECT' = r.pkg
             /\ mainTitle' = ReloadTitle(r.pkg.pack_name)
             /\ logged' = <<>>
             /\ emitted' = <<Event("on_project_update", MainId, NoTarget, r.pkg.scenes)>>

\* ------------------------------------------------- menu_event_listener
\* NEW_PROJECT | OPEN_PROJECT: the dirty check; the dialog is shown with a
\* callback and the handler returns.
menu_reload(event_id, outcome) ==
    /\ running
    /\ IF get_edited
       THEN /\ prompts[event_id] < MaxPrompts
            /\ prompts' = [prompts EXCEPT ![event_id] = @ + 1]
            /\ logged' = <<>>
            /\ emitted' = <<>>
            /\ UNCHANGED <<PROJECT, mainTitle>>
       ELSE /\ reload_project(event_id, outcome)
            /\ UNCHANGED prompts
    /\ op' = [name |-> "menu_reload", caller |-> MainId,
              arg |-> [id |-> event_id, dirty |-> get_edited,
                       failed |-> ~get_edited /\ load_fails(event_id, outcome)]]
    /\ ret' = Unit
    /\ UNCHANGED <<EDITED, IS_DARKMODE, conc, running, stagewin>>

\* the callback given to .show(): result is the user's answer
dialog_answer(event_id, result, outcome) ==
    /\ running
    /\ prompts[event_id] > 0
    /\ prompts' = [prompts EXCEPT ![event_id] = @ - 1]
    /\ IF result
       THEN reload_project(event_id, outcome)
       ELSE /\ logged' = <<Info(<<"User cancelled the project reload.">>)>>
            /\ emitted' = <<>>
            /\ UNCHANGED <<PROJECT, mainTitle>>
    /\ op' = [name |-> "dialog_answer", caller |-> MainId,
              arg |-> [id |-> event_id, result |-> result,
                       failed |-> result /\ load_fails(event_id, outcome)]]
    /\ ret' = Unit
    /\ UNCHANGED <<EDITED, IS_DARKMODE, conc, running, stagewin>>

\* (a save arm that clears the flag and sets the title before it looks at
\* the result)
save_result_unchecked(r) ==
    /\ PROJECT' = r.pkg
    /\ set_edited(FALSE)
    /\ mainTitle' = SaveTitle(r.pkg.pack_name)
    /\ logged' = IF r.result.ok THEN <<>>
                 ELSE <<Error(<<"Failed to save project: ", r.result.val>>)>>

\* "save" | "save_as": what follows save_project, r being what it did
save_result(r) ==
    IF ~r.result.ok
    THEN /\ logged' = <<Error(<<"Failed to save project: ", r.result.val>>)>>
         /\ UNCHANGED <<PROJECT, EDITED, mainTitle>>
    ELSE /\ PROJECT' = r.pkg
         /\ set_edited(FALSE)
         /\ mainTitle' = SaveTitle(r.pkg.pack_name)
         /\ logged' = <<>>

menu_save(save_as, outcome) ==
    LET r == Package_save_project(PROJECT, save_as, outcome)
    IN  /\ running
        /\ save_result(r)
        /\ emitted' = <<>>
        /\ op' = [name |-> "menu_save", caller |-> MainId,
                  arg |-> [save_as |-> save_as, ok |-> r.result.ok]]
        /\ ret' = Unit
        /\ UNCHANGED <<IS_DARKMODE, conc, prompts, running, stagewin>>

\* (a build arm that treats a successful export as a save)
menu_build_as_save(outcome) ==
    LET r == Package_export(PROJECT, outcome)
    IN  /\ running
        /\ EDITED' = (EDITED /\ ~r.ok)
        /\ logged' = IF r.ok THEN <<>>
                     ELSE <<Error(<<"Failed to build project: ", r.val>>)>>
        /\ emitted' = <<>>
        /\ op' = [name |-> "menu_build", caller |-> MainId, arg |-> outcome]
        /\ ret' = Unit
        /\ UNCHANGED <<PROJECT, mainTitle, IS_DARKMODE, conc, prompts, running, stagewin>>

\* "build"
menu_build(outcome) ==
    LET r == Package_export(PROJECT, outcome)
    IN  /\ running
        /\ logged' = IF r.ok THEN <<>>
                     ELSE <<Error(<<"Failed to build project: ", r.val>>)>>
        /\ emitted' = <<>>
        /\ op' = [name |-> "menu_build", caller |-> MainId, arg |-> outcome]
        /\ ret' = Unit
        /\ UNCHANGED <<document, IS_DARKMODE, conc, prompts, running, stagewin>>

\* DARKMODE
menu_darkmode ==
    LET new_darkmode == ~get_darkmode
    IN  /\ running
        /\ set_darkmode(new_darkmode)
        /\ logged' = <<>>
        /\ emitted' = <<Event("toggle_darkmode", AppId, NoTarget, new_darkmode)>>
        /\ op' = [name |-> "menu_darkmode", caller |-> MainId, arg |-> new_darkmode]
        /\ ret' = Unit
        /\ UNCHANGED <<document, conc, prompts, running, stagewin>>

\* "import_offset"
menu_import_offset(outcome) ==
    LET r == Package_import_offset(PROJECT, outcome)
    IN  /\ running
        /\ PROJECT' = r.pkg
        /\ logged' = IF r.result.ok THEN <<>> ELSE <<Error(<<r.result.val>>)>>
        /\ emitted' = <<>>
        /\ op' = [name |-> "menu_import_offset", caller |-> MainId, arg |-> r.result.ok]
        /\ ret' = Unit
        /\ UNCHANGED <<EDITED, mainTitle, IS_DARKMODE, conc, prompts, running, stagewin>>

\* ------------------------------------------------ window_event_listener
\* CloseRequested on the main window; do_close is the answer to the blocking
\* dialog, asked only when the dirty flag is set.
\* (a close handler that exits without looking at the dirty flag)
window_event_listener_ungated(do_close) ==
    /\ running
    /\ running' = FALSE
    /\ op' = [name |-> "close_requested", caller |-> MainId,
              arg |-> [prompted |-> get_edited, do_close |-> do_close]]
    /\ ret' = Unit
    /\ logged' = <<>>
    /\ emitted' = <<>>
    /\ UNCHANGED <<document, IS_DARKMODE, conc, prompts, stagewin>>

window_event_listener(do_close) ==
    /\ running
    /\ running' = (get_edited /\ ~do_close)
    /\ op' = [name |-> "close_requested", caller |-> MainId,
              arg |-> [prompted |-> get_edited, do_close |-> do_close]]
    /\ ret' = Unit
    /\ logged' = <<>>
    /\ emitted' = <<>>
    /\ UNCHANGED <<document, IS_DARKMODE, conc, prompts, stagewin>>

\* ------------------------------------------------------------ commands
request_project_update(w) ==
    /\ running
    /\ w \in Callers
    /\ Did("request_project_update", w, <<>>, Unit, <<>>,
           <<Event("on_project_update", w, NoTarget, PROJECT.scenes)>>)
    /\ UNCHANGED <<document, IS_DARKMODE, conc, prompts, running, stagewin>>

mark_as_edited(w, titleOk) ==
    /\ running
    /\ w \in Callers
    /\ set_edited(TRUE)
    /\ star_title(w, titleOk)
    /\ Did("mark_as_edited", w, <<>>, Unit, <<>>, <<>>)
    /\ UNCHANGED <<PROJECT, IS_DARKMODE, conc, prompts, running, listeners, nextUid, delivered, handed>>

\* (a save_scene that marks the project edited and stores nothing)
save_scene_marks_only(w, scene, titleOk) ==
    /\ running
    /\ w \in Callers
    /\ set_edited(TRUE)
    /\ star_title(w, titleOk)
    /\ Did("save_scene", w, scene, Unit, <<>>, <<>>)
    /\ UNCHANGED <<PROJECT, IS_DARKMODE, conc, prompts, running, listeners, nextUid, delivered,
                   handed>>

save_scene(w, scene, titleOk) ==
    /\ running
    /\ w \in Callers
    /\ set_edited(TRUE)
    /\ star_title(w, titleOk)
    /\ PROJECT' = Package_save_scene(PROJECT, scene)
    /\ Did("save_scene", w, scene, Unit, <<>>, <<>>)
    /\ UNCHANGED <<IS_DARKMODE, conc, prompts, running, listeners, nextUid, delivered, handed>>

\* (a delete_scene that never marks the project edited)
delete_scene_mark_never(is_ok, w, titleOk) == UNCHANGED <<EDITED, mainTitle, windows>>
\* (a delete_scene that marks the project edited whatever discard_scene found)
delete_scene_mark_always(is_ok, w, titleOk) ==
    set_edited(TRUE) /\ star_title(w, titleOk)

\* if ret.is_ok() { set_edited(true); star the title }
delete_scene_mark(is_ok, w, titleOk) ==
    IF is_ok
    THEN set_edited(TRUE) /\ star_title(w, titleOk)
    ELSE UNCHANGED <<EDITED, mainTitle, windows>>

delete_scene(w, id, titleOk) ==
    LET d == Package_discard_scene(PROJECT, id)
        found == d.removed # <<>>
    IN  /\ running
        /\ w \in Callers
        /\ PROJECT' = d.pkg
        /\ delete_scene_mark(found, w, titleOk)
        /\ IF found
           THEN Did("delete_scene", w, id, Ok(d.removed[1]), <<>>, <<>>)
           ELSE Did("delete_scene", w, id, Err(<<"Invalid Scene ID: ", id>>),
                    <<Error(<<"Invalid Scene ID: ", id>>)>>, <<>>)
        /\ UNCHANGED <<IS_DARKMODE, conc, prompts, running, listeners, nextUid, delivered, handed>>

\* --------------------------------------------------------- stage editor
StageLabel(stage) == <<"stage_editor_", stage.id>>
StageTitle(stage) ==
    <<"Stage Editor [", IF stage.name = "" THEN "Untitled" ELSE stage.name, "]">>

\* (a build() that creates the window whatever windows exist)
label_exists_unchecked(label) == FALSE

\* WebviewWindowBuilder::build() fails when a window with the label exists
label_exists(label) == \E w \in windows : w.label = label

\* window.once("on_request_data", closure): the listener is registered on the
\* new window, its closure owns the payload, and it is taken out of the
\* registry when it fires
\* (a listener registered on the main window instead of the new one)
once_on_main(uid, payload) == [uid |-> MainId, payload |-> payload]
once(uid, payload) == [uid |-> uid, payload |-> payload]
\* (listen(..) in place of once(..): the listener stays registered)
listen_fired(fired) == listeners
once_fired(fired) == listeners \ fired

\* open_stage_editor_impl: build the window, or panic in .expect(..) when
\* build() fails; then register the one-shot listener that owns the payload.
\* A panic ends the command's task, or the process when the build aborts on
\* panic (aborts).
open_stage_editor_impl(payload, aborts) ==
    LET stage == payload.stage
        uid == nextUid + 1
    IN  IF label_exists(StageLabel(stage))
        THEN /\ running' = ~aborts
             /\ ret' = Err("panic")
             /\ logged' = <<Info(<<"Opening Stage ", stage.id, payload.scene>>),
                            Error(<<"Failed to create stage editor window for Stage ",
                                    stage.id>>)>>
             /\ UNCHANGED stagewin
        ELSE /\ nextUid < MaxOpens
             /\ nextUid' = uid
             /\ windows' = windows \cup
                    {[uid |-> uid, label |-> StageLabel(stage), title |-> StageTitle(stage)]}
             /\ listeners' = listeners \cup {once(uid, payload)}
             /\ handed' = [handed EXCEPT ![uid] = {payload}]
             /\ ret' = Unit
             /\ logged' = <<Info(<<"Opening Stage ", stage.id, payload.scene>>)>>
             /\ UNCHANGED <<running, delivered>>

\* Stage::new(&active_scene): a fresh stage; its identifier is newly
\* generated, so it is no existing stage's and no earlier fresh stage's
\* (the negative numbers, one per stage made)
Stage_new(active_scene) == [id |-> 0 - (nextUid + 1), name |-> ""]

\* stage is an Option<Stage>: {} is None
open_stage_editor(active_scene, stage, aborts) ==
    /\ running
    /\ open_stage_editor_impl(
          [scene |-> active_scene.id,
           stage |-> IF stage = {} THEN Stage_new(active_scene)
                     ELSE CHOOSE st \in stage : TRUE,
           positions |-> active_scene.positions], aborts)
    /\ op' = [name |-> "open_stage_editor", caller |-> MainId,
              arg |-> stage]
    /\ emitted' = <<>>
    /\ UNCHANGED <<document, IS_DARKMODE, conc, prompts>>

open_stage_editor_from(active_scene, copy_stage, aborts) ==
    /\ running
    /\ open_stage_editor_impl(
          [scene |-> active_scene.id, stage |-> copy_stage,
           positions |-> active_scene.positions], aborts)
    /\ op' = [name |-> "open_stage_editor_from", caller |-> MainId, arg |-> {copy_stage}]
    /\ emitted' = <<>>
    /\ UNCHANGED <<document, IS_DARKMODE, conc, prompts>>

\* the positions the Package holds for scene id now, else those given
LivePositions(id, positions) ==
    IF id \in Ids(PROJECT.scenes)
    THEN PROJECT.scenes[CHOOSE i \in 1..Len(PROJECT.scenes) : PROJECT.scenes[i].id = id].positions
    ELSE positions

\* (a closure that holds the scene's identifier and reads its positions from
\* PROJECT when it fires, in place of its own copy)
closure_live(l) ==
    Event("on_data_received", l.uid, NoTarget,
          [l.payload EXCEPT !.positions = LivePositions(l.payload.scene, @)])

\* the closure of listener l: window.emit("on_data_received", payload.clone())
closure(l) == Event("on_data_received", l.uid, NoTarget, l.payload)

\* The UI of stage-editor window u signals that it is ready: an
\* "on_request_data" event on that window.  The listener registered on the
\* window, if still registered, runs its closure.
Ready(u) ==
    LET fired == {l \in listeners : l.uid = u}
    IN  /\ running
        /\ \E w \in windows : w.uid = u
        /\ listeners' = once_fired(fired)
        /\ delivered' = [delivered EXCEPT ![u] = @ + Cardinality(fired)]
        /\ Did("on_request_data", u, <<>>, Unit, <<>>,
               IF fired = {} THEN <<>> ELSE <<closure(CHOOSE l \in fired : TRUE)>>)
        /\ UNCHANGED <<document, IS_DARKMODE, conc, prompts, running, windows, nextUid, handed>>

\* window.close(): the close message of window u, sent to the event loop
Close(u) == [event |-> "close", via |-> u, to |-> NoTarget, payload |-> <<>>]

\* (a stage_save_and_close that closes the window before it notifies)
stage_save_and_close_close_first(u, scene, positions, stage) ==
    /\ running
    /\ \E w \in windows : w.uid = u
    /\ windows' = {w \in windows : w.uid # u}
    /\ handed' = [handed EXCEPT ![u] = {}]
    /\ Did("stage_save_and_close", u,
           [scene |-> scene, stage |-> stage, positions |-> positions], Unit,
           <<Info(<<"Saving Stage ", stage.id>>)>>,
           <<Close(u),
             Event("on_stage_saved", AppId, MAIN_WINDOW,
                   [scene |-> scene, stage |-> stage, positions |-> positions])>>)
    /\ UNCHANGED <<document, IS_DARKMODE, conc, prompts, running, listeners, nextUid, delivered>>

\* stage_save_and_close, called by stage-editor window u: the notification
\* to the main window, then the close of the calling window (no handler
\* vetoes the close of a stage-editor window)
stage_save_and_close(u, scene, positions, stage) ==
    /\ running
    /\ \E w \in windows : w.uid = u
    /\ windows' = {w \in windows : w.uid # u}
    /\ handed' = [handed EXCEPT ![u] = {}]
    /\ Did("stage_save_and_close", u,
           [scene |-> scene, stage |-> stage, positions |-> positions], Unit,
           <<Info(<<"Saving Stage ", stage.id>>)>>,
           <<Event("on_stage_saved", AppId, MAIN_WINDOW,
                   [scene |-> scene, stage |-> stage, positions |-> positions]),
             Close(u)>>)
    /\ UNCHANGED <<document, IS_DARKMODE, conc, prompts, running, listeners, nextUid, delivered>>

\* the user closes stage-editor window u without saving
CloseStageWindow(u) ==
    /\ running
    /\ \E w \in windows : w.uid = u
    /\ windows' = {w \in windows : w.uid # u}
    /\ handed' = [handed EXCEPT ![u] = {}]
    /\ Did("close_window", u, <<>>, Unit, <<>>, <<>>)
    /\ UNCHANGED <<document, IS_DARKMODE, conc, prompts, running, listeners, nextUid, delivered>>

\* the scene open in the main window is scene 1
ActiveScenes == {x \in Scene : x.id = 1}

\* ------------------------------------------------------------- threads
\* The handlers again, as the steps their threads take: a step reads or
\* writes the dirty flag, or locks PROJECT, or is what the handler does
\* while it holds the lock.  A handler's access to the calling window's
\* title is part of the step before it.  The windows here are the main
\* window only.
In(t, cmd, at) == thr[t].cmd = cmd /\ thr[t].at = at
IsIdle(t) == thr[t].at = "idle"
PastGate(t) == In(t, "reload_project", "lock")

\* thread t goes on as rec; when the step is a set_edited(true) (edits),
\* every reload_project that is past the gate and has not locked PROJECT
\* yet is marked (raced).  Such a thread also keeps whether the Package had
\* unsaved changes when it passed the gate (had).
Move(t, rec, edits) ==
    thr' = [u \in Threads |->
              IF u = t THEN rec
              ELSE IF edits /\ PastGate(u)
                   THEN [thr[u] EXCEPT !.arg.raced = TRUE]
                   ELSE thr[u]]

\* PROJECT.lock(): blocks while a thread holds the mutex
lock_PROJECT(t) == lock = {} /\ lock' = {t}
\* the MutexGuard goes out of scope
drop(t) == lock' = lock \ {t}

frame == <<IS_DARKMODE, listeners, nextUid, delivered, handed>>

\* PROJECT.lock().unwrap() of the handler thread t runs
Acquire(t) ==
    /\ running
    /\ thr[t].at = "lock"
    /\ lock_PROJECT(t)
    /\ Move(t, [thr[t] EXCEPT !.at = "locked", !.n = @ + 1], FALSE)
    /\ Did("lock", t, thr[t].cmd, Unit, <<>>, <<>>)
    /\ UNCHANGED <<document, prompts, running, unsaved, windows, frame>>

\* a handler that only has to be dispatched before it locks PROJECT
Dispatch(t, cmd, arg) ==
    /\ running
    /\ IsIdle(t)
    /\ Move(t, Cmd(cmd, "lock", arg), FALSE)
    /\ Did("dispatch", t, cmd, Unit, <<>>, <<>>)
    /\ UNCHANGED <<document, prompts, running, lock, unsaved, windows, frame>>

\* (a gate that reads the flag with PROJECT locked and keeps the lock into
\* reload_project)
menu_reload_gate_locked(event_id) ==
    /\ running
    /\ IsIdle(MainThread)
    /\ IF get_edited
       THEN /\ \E d \in DialogThreads : IsIdle(d)
            /\ LET d == CHOOSE x \in DialogThreads : IsIdle(x)
               IN  Move(d, Cmd("reload_project", "prompt",
                               [type |-> event_id, raced |-> FALSE, had |-> unsaved]), FALSE)
            /\ prompts' = [prompts EXCEPT ![event_id] = @ + 1]
            /\ UNCHANGED lock
       ELSE /\ lock_PROJECT(MainThread)
            /\ Move(MainThread, Cmd("reload_project", "locked",
                                    [type |-> event_id, raced |-> FALSE, had |-> unsaved]), FALSE)
            /\ UNCHANGED prompts
    /\ Did("menu_reload_gate", MainThread, [id |-> event_id, dirty |-> get_edited],
           Unit, <<>>, <<>>)
    /\ UNCHANGED <<document, running, unsaved, windows, frame>>

\* menu_event_listener, NEW_PROJECT | OPEN_PROJECT: the gate.  With the flag
\* set the dialog is shown and a dialog thread waits for the answer; with
\* it clear the main thread goes on into reload_project.
menu_reload_gate(event_id) ==
    /\ running
    /\ IsIdle(MainThread)
    /\ IF get_edited
       THEN /\ \E d \in DialogThreads : IsIdle(d)
            /\ LET d == CHOOSE x \in DialogThreads : IsIdle(x)
               IN  Move(d, Cmd("reload_project", "prompt",
                               [type |-> event_id, raced |-> FALSE, had |-> unsaved]), FALSE)
            /\ prompts' = [prompts EXCEPT ![event_id] = @ + 1]
       ELSE /\ Move(MainThread, Cmd("reload_project", "lock",
                                    [type |-> event_id, raced |-> FALSE, had |-> unsaved]), FALSE)
            /\ UNCHANGED prompts
    /\ Did("menu_reload_gate", MainThread, [id |-> event_id, dirty |-> get_edited],
           Unit, <<>>, <<>>)
    /\ UNCHANGED <<document, running, lock, unsaved, windows, frame>>

\* the user answers the menu dialog of dialog thread d
dialog_callback(d, result) ==
    /\ running
    /\ In(d, "reload_project", "prompt")
    /\ prompts' = [prompts EXCEPT ![thr[d].arg.type] = @ - 1]
    /\ IF result
       THEN /\ Move(d, [thr[d] EXCEPT !.at = "lock", !.arg.had = unsaved], FALSE)
            /\ logged' = <<>>
       ELSE /\ Move(d, Idle, FALSE)
            /\ logged' = <<Info(<<"User cancelled the project reload.">>)>>
    /\ op' = [name |-> "dialog_callback", caller |-> d,
              arg |-> [id |-> thr[d].arg.type, result |-> result]]
    /\ ret' = Unit
    /\ emitted' = <<>>
    /\ UNCHANGED <<document, running, lock, unsaved, windows, frame>>

\* (a reload_project that, still holding its guard, emits the scenes through
\* a helper that locks PROJECT itself)
reload_project_relocks(t, outcome) ==
    /\ running
    /\ In(t, "reload_project", "locked")
    /\ reload_project(thr[t].arg.type, outcome)
    /\ unsaved' = (unsaved /\ load_fails(thr[t].arg.type, outcome))
    /\ IF load_fails(thr[t].arg.type, outcome)
       THEN drop(t) /\ Move(t, Idle, FALSE)
       ELSE UNCHANGED lock /\ Move(t, [thr[t] EXCEPT !.at = "lock"], FALSE)
    /\ op' = [name |-> "reload_project", caller |-> t,
              arg |-> [id |-> thr[t].arg.type, raced |-> thr[t].arg.raced,
                       had |-> thr[t].arg.had, unsaved |-> unsaved,
                       failed |-> load_fails(thr[t].arg.type, outcome)]]
    /\ ret' = Unit
    /\ UNCHANGED <<EDITED, prompts, running, windows, frame>>

\* reload_project with PROJECT locked, to its return
reload_project_locked(t, outcome) ==
    /\ running
    /\ In(t, "reload_project", "locked")
    /\ reload_project(thr[t].arg.type, outcome)
    /\ unsaved' = (unsaved /\ load_fails(thr[t].arg.type, outcome))
    /\ drop(t)
    /\ Move(t, Idle, FALSE)
    /\ op' = [name |-> "reload_project", caller |-> t,
              arg |-> [id |-> thr[t].arg.type, raced |-> thr[t].arg.raced,
                       had |-> thr[t].arg.had, unsaved |-> unsaved,
                       failed |-> load_fails(thr[t].arg.type, outcome)]]
    /\ ret' = Unit
    /\ UNCHANGED <<EDITED, prompts, running, windows, frame>>

\* "save" | "save_as" with PROJECT locked: save_project
menu_save_project(outcome) ==
    LET t == MainThread
        r == Package_save_project(PROJECT, thr[t].arg, outcome)
    IN  /\ running
        /\ In(t, "menu_save", "locked")
        /\ IF r.result.ok
           THEN /\ PROJECT' = r.pkg
                /\ unsaved' = FALSE
                /\ Move(t, [thr[t] EXCEPT !.at = "saved"], FALSE)
                /\ logged' = <<>>
                /\ UNCHANGED lock
           ELSE /\ logged' = <<Error(<<"Failed to save project: ", r.result.val>>)>>
                /\ drop(t)
                /\ Move(t, Idle, FALSE)
                /\ UNCHANGED <<PROJECT, unsaved>>
        /\ op' = [name |-> "menu_save_project", caller |-> t, arg |-> r.result.ok]
        /\ ret' = Unit
        /\ emitted' = <<>>
        /\ UNCHANGED <<EDITED, mainTitle, prompts, running, windows, frame>>

\* ... then set_edited(false), the title, and the end of the arm
menu_save_clear ==
    LET t == MainThread
    IN  /\ running
        /\ In(t, "menu_save", "saved")
        /\ set_edited(FALSE)
        /\ mainTitle' = SaveTitle(PROJECT.pack_name)
        /\ drop(t)
        /\ Move(t, Idle, FALSE)
        /\ Did("menu_save_clear", t, <<>>, Unit, <<>>, <<>>)
        /\ UNCHANGED <<PROJECT, prompts, running, unsaved, windows, frame>>

\* "build" with PROJECT locked
menu_build_locked(outcome) ==
    LET t == MainThread
        r == Package_export(PROJECT, outcome)
    IN  /\ running
        /\ In(t, "menu_build", "locked")
        /\ drop(t)
        /\ Move(t, Idle, FALSE)
        /\ Did("menu_build", t, outcome, Unit,
               IF r.ok THEN <<>> ELSE <<Error(<<"Failed to build project: ", r.val>>)>>,
               <<>>)
        /\ UNCHANGED <<document, prompts, running, unsaved, windows, frame>>

\* "import_offset" with PROJECT locked
menu_import_offset_locked(outcome) ==
    LET t == MainThread
        r == Package_import_offset(PROJECT, outcome)
    IN  /\ running
        /\ In(t, "menu_import_offset", "locked")
        /\ PROJECT' = r.pkg
        /\ drop(t)
        /\ Move(t, Idle, FALSE)
        /\ Did("menu_import_offset", t, r.result.ok, Unit,
               IF r.result.ok THEN <<>> ELSE <<Error(<<r.result.val>>)>>, <<>>)
        /\ UNCHANGED <<EDITED, mainTitle, prompts, running, unsaved, windows, frame>>

\* delete_scene with PROJECT locked: discard_scene; the guard is dropped at
\* the end of the statement
delete_scene_locked ==
    LET t == MainThread
        id == thr[t].arg
        d == Package_discard_scene(PROJECT, id)
        found == d.removed # <<>>
    IN  /\ running
        /\ In(t, "delete_scene", "locked")
        /\ PROJECT' = d.pkg
        /\ unsaved' = (unsaved \/ found)
        /\ drop(t)
        /\ Move(t, [thr[t] EXCEPT !.at = "mark", !.arg = [id |-> id, found |-> found]],
                FALSE)
        /\ Did("delete_scene_locked", t, id, Unit,
               IF found THEN <<>> ELSE <<Error(<<"Invalid Scene ID: ", id>>)>>, <<>>)
        /\ UNCHANGED <<EDITED, mainTitle, prompts, running, windows, frame>>

\* ... then if ret.is_ok() { set_edited(true); .. } and the return
delete_scene_return ==
    LET t == MainThread
        found == thr[t].arg.found
    IN  /\ running
        /\ In(t, "delete_scene", "mark")
        /\ delete_scene_mark(found, MainId, TRUE)
        /\ Move(t, Idle, found)
        /\ Did("delete_scene_return", t, thr[t].arg.id,
               IF found THEN Unit ELSE Err(<<"Invalid Scene ID: ", thr[t].arg.id>>),
               <<>>, <<>>)
        /\ UNCHANGED <<PROJECT, prompts, running, lock, unsaved, frame>>

\* (a close handler that reads the flag and asks with PROJECT locked)
close_requested_locked ==
    /\ running
    /\ IsIdle(MainThread)
    /\ IF get_edited
       THEN /\ lock_PROJECT(MainThread)
            /\ Move(MainThread, Cmd("window_event_listener", "prompt", <<>>), FALSE)
            /\ UNCHANGED running
       ELSE /\ running' = FALSE
            /\ UNCHANGED <<thr, lock>>
    /\ Did("close_requested", MainThread, get_edited, Unit, <<>>, <<>>)
    /\ UNCHANGED <<document, prompts, unsaved, windows, frame>>

\* window_event_listener, CloseRequested: the gate; the blocking dialog
\* keeps the main thread until the user answers
close_requested ==
    /\ running
    /\ IsIdle(MainThread)
    /\ IF get_edited
       THEN /\ Move(MainThread, Cmd("window_event_listener", "prompt", <<>>), FALSE)
            /\ UNCHANGED running
       ELSE /\ running' = FALSE
            /\ UNCHANGED thr
    /\ Did("close_requested", MainThread, get_edited, Unit, <<>>, <<>>)
    /\ UNCHANGED <<document, prompts, lock, unsaved, windows, frame>>

\* ... the user answers: exit(0), or prevent_close() and return
close_answer(do_close) ==
    /\ running
    /\ In(MainThread, "window_event_listener", "prompt")
    /\ running' = ~do_close
    /\ IF do_close THEN UNCHANGED thr ELSE Move(MainThread, Idle, FALSE)
    /\ Did("close_answer", MainThread, do_close, Unit, <<>>, <<>>)
    /\ UNCHANGED <<document, prompts, lock, unsaved, windows, frame>>

\* mark_as_edited on worker w, called from the main window
mark_as_edited_run(w) ==
    /\ running
    /\ IsIdle(w)
    /\ set_edited(TRUE)
    /\ star_title(MainId, TRUE)
    /\ Move(w, Idle, TRUE)
    /\ Did("mark_as_edited", w, <<>>, Unit, <<>>, <<>>)
    /\ UNCHANGED <<PROJECT, prompts, running, lock, unsaved, frame>>

\* save_scene on worker w: mark_as_edited(window).await ...
save_scene_mark(w, scene) ==
    /\ running
    /\ IsIdle(w)
    /\ set_edited(TRUE)
    /\ star_title(MainId, TRUE)
    /\ Move(w, Cmd("save_scene", "lock", scene), TRUE)
    /\ Did("save_scene_mark", w, scene, Unit, <<>>, <<>>)
    /\ UNCHANGED <<PROJECT, prompts, running, lock, unsaved, frame>>

\* ... and, with PROJECT locked, Package::save_scene
save_scene_locked(w) ==
    /\ running
    /\ In(w, "save_scene", "locked")
    /\ PROJECT' = Package_save_scene(PROJECT, thr[w].arg)
    /\ unsaved' = TRUE
    /\ drop(w)
    /\ Move(w, Idle, FALSE)
    /\ Did("save_scene_locked", w, thr[w].arg, Unit, <<>>, <<>>)
    /\ UNCHANGED <<EDITED, mainTitle, prompts, running, windows, frame>>

\* request_project_update with PROJECT locked
request_project_update_locked(w) ==
    /\ running
    /\ In(w, "request_project_update", "locked")
    /\ drop(w)
    /\ Move(w, Idle, FALSE)
    /\ Did("request_project_update", w, <<>>, Unit, <<>>,
           <<Event("on_project_update", MainId, NoTarget, PROJECT.scenes)>>)
    /\ UNCHANGED <<document, prompts, running, unsaved, windows, frame>>

\* the project file opened here: it fails to load, or holds the last scene
FileOutcomes ==
    {{}, {[pack_name |-> "Pack",
           scenes |-> <<[id |-> NumScenes, positions |-> "p0"]>>]}}

\* what thread t does next by itself once it holds PROJECT or has dropped it
Continue(t) ==
    \/ \E o \in FileOutcomes : reload_project_locked(t, o)
    \/ t = MainThread /\ \E o \in SaveOutcomes : menu_save_project(o)
    \/ t = MainThread /\ menu_save_clear
    \/ t = MainThread /\ \E o \in BOOLEAN : menu_build_locked(o)
    \/ t = MainThread /\ \E o \in ImportOutcomes(PROJECT) : menu_import_offset_locked(o)
    \/ t = MainThread /\ delete_scene_locked
    \/ t = MainThread /\ delete_scene_return
    \/ t \in Workers /\ save_scene_locked(t)
    \/ t \in Workers /\ request_project_update_locked(t)

\* what the user and the UI start
Begin ==
    \/ \E k \in {NEW_PROJECT, OPEN_PROJECT} : menu_reload_gate(k)
    \/ \E d \in DialogThreads, a \in BOOLEAN : dialog_callback(d, a)
    \/ \E a \in BOOLEAN : Dispatch(MainThread, "menu_save", a)
    \/ Dispatch(MainThread, "menu_build", <<>>)
    \/ Dispatch(MainThread, "menu_import_offset", <<>>)
    \/ \E i \in SceneIds : Dispatch(MainThread, "delete_scene", i)
    \/ close_requested
    \/ \E a \in BOOLEAN : close_answer(a)
    \/ \E w \in Workers : mark_as_edited_run(w)
    \/ \E w \in Workers, sc \in ActiveScenes : save_scene_mark(w, sc)
    \/ \E w \in Workers : Dispatch(w, "request_project_update", <<>>)

NextThr ==
    \/ Begin
    \/ \E t \in Threads : Acquire(t)
    \/ \E t \in Threads : Continue(t)

\* ---------------------------------------------------------------- Spec
Uids == 1..MaxOpens

\* the document store, the dirty flag, the confirmation gate
NextDoc ==
    \/ \E k \in {NEW_PROJECT, OPEN_PROJECT}, o \in LoadOutcomes : menu_reload(k, o)
    \/ \E k \in {NEW_PROJECT, OPEN_PROJECT}, a \in BOOLEAN, o \in LoadOutcomes :
          dialog_answer(k, a, o)
    \/ \E a \in BOOLEAN, o \in SaveOutcomes : menu_save(a, o)
    \/ \E o \in BOOLEAN : menu_build(o)
    \/ menu_darkmode
    \/ \E o \in ImportOutcomes(PROJECT) : menu_import_offset(o)
    \/ \E a \in BOOLEAN : window_event_listener(a)
    \/ \E w \in Callers : request_project_update(w)
    \/ \E w \in Callers, t \in BOOLEAN : mark_as_edited(w, t)
    \/ \E w \in Callers, sc \in Scene, t \in BOOLEAN : save_scene(w, sc, t)
    \/ \E w \in Callers, i \in SceneIds, t \in BOOLEAN : delete_scene(w, i, t)

\* the window orchestrator, and a Package mutation running beside it
NextWin ==
    \/ \E sc \in ActiveScenes, st \in {{}} \cup {{x} : x \in Stage}, a \in BOOLEAN :
          open_stage_editor(sc, st, a)
    \/ \E sc \in ActiveScenes, st \in Stage, a \in BOOLEAN :
          open_stage_editor_from(sc, st, a)
    \/ \E u \in Uids : Ready(u)
    \/ \E u \in Uids, sc \in ActiveScenes, st \in Stage :
          stage_save_and_close(u, sc.id, sc.positions, st)
    \/ \E u \in Uids : CloseStageWindow(u)
    \/ \E sc \in ActiveScenes : save_scene(MainId, sc, TRUE)

Next == NextDoc \/ NextWin

\* every handler that can run while the dirty flag is set, each on few
\* inputs: one scene, one stage, one project file, calls from the main window
FlagScene == [id |-> 1, positions |-> "p0"]
FlagStage == [id |-> 1, name |-> StageName(1)]
NextFlag ==
    \/ \E k \in {NEW_PROJECT, OPEN_PROJECT}, o \in FileOutcomes : menu_reload(k, o)
    \/ \E k \in {NEW_PROJECT, OPEN_PROJECT}, a \in BOOLEAN, o \in FileOutcomes :
          dialog_answer(k, a, o)
    \/ \E o \in SaveOutcomes : menu_save(FALSE, o)
    \/ \E o \in BOOLEAN : menu_build(o)
    \/ menu_darkmode
    \/ \E o \in ImportOutcomes(PROJECT) : menu_import_offset(o)
    \/ \E a \in BOOLEAN : window_event_listener(a)
    \/ request_project_update(MainId)
    \/ mark_as_edited(MainId, TRUE)
    \/ save_scene(MainId, FlagScene, TRUE)
    \/ \E i \in SceneIds : delete_scene(MainId, i, TRUE)
    \/ open_stage_editor(FlagScene, {FlagStage}, FALSE)
    \/ open_stage_editor_from(FlagScene, FlagStage, FALSE)
    \/ \E u \in Uids : Ready(u)
    \/ \E u \in Uids :
          stage_save_and_close(u, FlagScene.id, FlagScene.positions, FlagStage)

\* Spec: every handler of the program.  SpecDoc and SpecWin are its two
\* components, which share no state but the flags and the calling window's
\* title: SpecDoc has no stage-editor window, SpecWin no menu.
Spec    == Init /\ [][Next]_vars
SpecDoc == Init /\ [][NextDoc]_vars
SpecWin == Init /\ [][NextWin]_vars
SpecFlag == Init /\ [][NextFlag]_vars

\* SpecThr: the handlers that read or write the Package or the dirty flag,
\* as the steps of their threads.  SpecFair adds the scheduling: a thread
\* that can take its next step takes it, and a thread that waits for the
\* PROJECT mutex gets it if the mutex is free again and again.  When a
\* handler starts, and when a dialog is answered, is up to the user.
SpecThr  == Init /\ [][NextThr]_vars
\* (every step of Continue and of Acquire changes sched)
sched == <<lock, [t \in Threads |-> thr[t].at]>>
Fairness == \A t \in Threads : WF_sched(Continue(t)) /\ SF_sched(Acquire(t))
\* the same handlers and threads, each command on one input
BeginFair ==
    \/ \E k \in {NEW_PROJECT, OPEN_PROJECT} : menu_reload_gate(k)
    \/ \E d \in DialogThreads, a \in BOOLEAN : dialog_callback(d, a)
    \/ Dispatch(MainThread, "menu_save", FALSE)
    \/ Dispatch(MainThread, "menu_build", <<>>)
    \/ Dispatch(MainThread, "menu_import_offset", <<>>)
    \/ Dispatch(MainThread, "delete_scene", FlagScene.id)
    \/ close_requested
    \/ \E a \in BOOLEAN : close_answer(a)
    \/ \E w \in Workers : mark_as_edited_run(w)
    \/ \E w \in Workers : save_scene_mark(w, FlagScene)
    \/ \E w \in Workers : Dispatch(w, "request_project_update", <<>>)
NextFair ==
    \/ BeginFair
    \/ \E t \in Threads : Acquire(t)
    \/ \E t \in Threads : Continue(t)
SpecFair == Init /\ [][NextFair]_vars /\ Fairness

\* ================================================================ claims
LiveUids == {w.uid : w \in windows}
IsOpen(o) == o.name \in {"open_stage_editor", "open_stage_editor_from"}
SameLabel(label) == {w \in windows : w.label = label}
HasError(lg) == \E i \in 1..Len(lg) : lg[i].level = "error"
Without(scenes, id) == SelectSeq(scenes, LAMBDA x : x.id # id)

\* C1: the payload of a stage-editor window is delivered at most once over
\* the window's lifetime, however often its ready signal fires: while the
\* listener is registered nothing has been delivered, and the first ready
\* signal takes the listener out, so that later ones deliver nothing.
C1_DeliveredAtMostOnce ==
    /\ \A u \in Uids : delivered[u] <= 1
    /\ \A l \in listeners : l.uid \in Uids /\ delivered[l.uid] = 0
    /\ \A u \in LiveUids : delivered[u] = 1 => ~\E l \in listeners : l.uid = u

\* a ready signal after the payload was delivered: nothing is emitted
C1_Witness ==
    /\ op.name = "on_request_data"
    /\ emitted = <<>>
    /\ delivered[op.caller] = 1

\* an open emits nothing, and an "on_data_received" is emitted only by the
\* ready handler of the window it is emitted through
C2_OnlyOnReady ==
    /\ IsOpen(op) => emitted = <<>>
    /\ \A i \in 1..Len(emitted) :
          emitted[i].event = "on_data_received" =>
             /\ op.name = "on_request_data"
             /\ emitted[i].via = op.caller

\* a ready signal of window u emits the payload u was opened with when
\* nothing was delivered to u before, and nothing otherwise
C2_ReadyDelivers ==
    op'.name = "on_request_data" =>
        LET u == op'.caller
        IN  emitted' = IF delivered[u] = 0
                       THEN <<Event("on_data_received", u, NoTarget,
                                    CHOOSE p \in handed[u] : TRUE)>>
                       ELSE <<>>

\* C2: nothing is delivered when the window is created; every delivery to a
\* stage-editor window is made by the handler of that window's ready signal;
\* and the first ready signal of a window delivers exactly the payload the
\* window was opened with.
C2_Handshake == [](C2_OnlyOnReady) /\ [][C2_ReadyDelivers]_vars

\* the first ready signal of a window has just delivered its payload
C2_Witness ==
    /\ op.name = "on_request_data"
    /\ Len(emitted) = 1
    /\ emitted[1].event = "on_data_received"
    /\ handed[op.caller] = {emitted[1].payload}

\* C3: after a completed save_scene, a successful delete_scene or a
\* mark_as_edited, the dirty flag reads true.
C3_DirtyAfterMutation ==
    (\/ op.name \in {"save_scene", "mark_as_edited"}
     \/ (op.name = "delete_scene" /\ ret.ok)) => EDITED

\* a scene has just been deleted and the flag is set
C3_Witness ==
    /\ op.name = "delete_scene"
    /\ ret.ok
    /\ EDITED

\* a step of the save arm: on success the flag is clear; on failure the
\* flag and the main window's title are as before and one error is logged
C4_SaveStep ==
    op'.name = "menu_save" =>
        IF op'.arg.ok
        THEN /\ ~EDITED'
             /\ logged' = <<>>
        ELSE /\ EDITED' = EDITED
             /\ mainTitle' = mainTitle
             /\ Len(logged') = 1
             /\ logged'[1].level = "error"

\* C4: Save / Save As clears the dirty flag exactly when save_project
\* succeeds; when it fails the flag and the main window's title keep their
\* values and the error is logged.
C4_SaveClearsOnSuccessOnly == [][C4_SaveStep]_vars

\* a save has just failed with the flag set: it is still set, the title
\* still starred, the error in the log
C4_Witness ==
    /\ op.name = "menu_save"
    /\ ~op.arg.ok
    /\ EDITED
    /\ ends_with_star(mainTitle)
    /\ Len(logged) = 1

\* a step of delete_scene(id), by whether the Package holds id
C5_DeleteStep ==
    op'.name = "delete_scene" =>
        LET id == op'.arg
        IN  IF id \notin Ids(PROJECT.scenes)
            THEN /\ ~ret'.ok
                 /\ ret'.val = <<"Invalid Scene ID: ", id>>
                 /\ UNCHANGED <<PROJECT, EDITED, mainTitle, windows>>
            ELSE /\ ret'.ok
                 /\ ret'.val.id = id
                 /\ \E i \in 1..Len(PROJECT.scenes) : PROJECT.scenes[i] = ret'.val
                 /\ PROJECT'.scenes = Without(PROJECT.scenes, id)
                 /\ Len(PROJECT'.scenes) = Len(PROJECT.scenes) - 1
                 /\ PROJECT'.pack_name = PROJECT.pack_name
                 /\ EDITED'

\* C5: delete_scene of an identifier the Package does not hold returns the
\* "Invalid Scene ID" error and leaves the scenes, the dirty flag and the
\* titles as they were; of one it holds, it removes exactly that scene,
\* returns it and sets the dirty flag.
C5_DeleteScene == [][C5_DeleteStep]_vars

\* a delete_scene has just failed on a Package that is empty and saved
C5_Witness ==
    /\ op.name = "delete_scene"
    /\ ~ret.ok
    /\ PROJECT.scenes = <<>>
    /\ ~EDITED
    /\ mainTitle = SaveTitle(PROJECT.pack_name)

\* C6: after New Project confirmed with "yes" (the flag was set when the
\* menu fired), the Package is empty and the dirty flag reads false.
C6_FreshProjectNotDirty ==
    (/\ op.name = "dialog_answer"
     /\ op.arg.id = NEW_PROJECT
     /\ op.arg.result) => (PROJECT = Package_new /\ ~EDITED)

\* the state after reload_project ran for menu id k on Package old: the
\* load failed, logged, and changed nothing; or the Package was replaced
\* (by the empty one for NEW_PROJECT), the title set and the scenes emitted
ReloadRan(k, old, new, title, lg, em) ==
    \/ /\ k = OPEN_PROJECT
       /\ HasError(lg)
       /\ em = <<>>
       /\ new = old
    \/ /\ lg = <<>>
       /\ Len(em) = 1
       /\ em[1].event = "on_project_update"
       /\ em[1].payload = new.scenes
       /\ title = ReloadTitle(new.pack_name)
       /\ k = NEW_PROJECT => new = Package_new

\* a step of the New Project / Open Project arm, and of the dialog's callback
C7_GateStep ==
    /\ op'.name = "menu_reload" =>
          IF EDITED
          THEN /\ prompts' = [prompts EXCEPT ![op'.arg.id] = @ + 1]
               /\ UNCHANGED <<PROJECT, EDITED, mainTitle>>
               /\ logged' = <<>>
               /\ emitted' = <<>>
          ELSE /\ prompts' = prompts
               /\ ReloadRan(op'.arg.id, PROJECT, PROJECT', mainTitle', logged', emitted')
    /\ op'.name = "dialog_answer" =>
          /\ prompts' = [prompts EXCEPT ![op'.arg.id] = @ - 1]
          /\ IF op'.arg.result
             THEN ReloadRan(op'.arg.id, PROJECT, PROJECT', mainTitle', logged', emitted')
             ELSE /\ UNCHANGED <<PROJECT, EDITED, mainTitle>>
                  /\ ~HasError(logged')
                  /\ emitted' = <<>>

\* C7: New Project / Open Project with the flag clear reload at once and
\* show no prompt; with the flag set they show a prompt and change nothing;
\* the answer "no" leaves the Package, the flag and the title as they were
\* and logs no error; the answer "yes" runs the reload.
C7_ConfirmationGate == [][C7_GateStep]_vars

\* the user has just answered "no" to Open Project: the scenes and the set
\* flag are still there
C7_Witness ==
    /\ op.name = "dialog_answer"
    /\ op.arg.id = OPEN_PROJECT
    /\ ~op.arg.result
    /\ EDITED
    /\ PROJECT.scenes # <<>>

\* scene identifiers are unique within the Package
C8_UniqueIds == Cardinality(Ids(PROJECT.scenes)) = Len(PROJECT.scenes)

\* a step of save_scene(S): S replaces the scene with its identifier where
\* it stood, or is appended
C8_SaveStep ==
    op'.name = "save_scene" =>
        LET S == op'.arg
            old == PROJECT.scenes
            new == PROJECT'.scenes
        IN  /\ Cardinality({i \in 1..Len(new) : new[i].id = S.id}) = 1
            /\ \A i \in 1..Len(new) : new[i].id = S.id => new[i] = S
            /\ IF S.id \in Ids(old)
               THEN /\ Len(new) = Len(old)
                    /\ \A i \in 1..Len(old) :
                          new[i] = IF old[i].id = S.id THEN S ELSE old[i]
               ELSE new = Append(old, S)

\* C8: scene identifiers stay unique in the Package, and save_scene(S)
\* leaves exactly one scene with S's identifier, equal to S: in the place of
\* the scene that had the identifier, or appended when none had.
C8_SaveSceneUpserts == [](C8_UniqueIds) /\ [][C8_SaveStep]_vars

\* the scene just saved stands first of two: it replaced the scene that had
\* its identifier, in place
C8_Witness ==
    /\ op.name = "save_scene"
    /\ Len(PROJECT.scenes) = 2
    /\ PROJECT.scenes[1] = op.arg

\* no open made a second window: a label has one live window, and the live
\* windows of a label have at most one registered listener
C9_OnePerStage ==
    \A w \in windows :
        /\ Cardinality(SameLabel(w.label)) = 1
        /\ Cardinality({l \in listeners :
               l.uid \in {x.uid : x \in SameLabel(w.label)}}) <= 1

\* an open for a stage whose window is live fails, and creates no window
\* and registers no listener
C9_Rejected ==
    (IsOpen(op') /\ \E st \in op'.arg : SameLabel(StageLabel(st)) # {}) =>
        /\ ~ret'.ok
        /\ windows' = windows
        /\ listeners' = listeners
        /\ nextUid' = nextUid

\* C9: at most one live stage-editor window per stage identifier; an open
\* for an identifier that has a live window is rejected and creates neither
\* a second window nor a second listener.
C9_OneWindowPerStage == [](C9_OnePerStage) /\ [][C9_Rejected]_vars

\* an open was rejected because the stage's window is live
C9_Witness ==
    /\ IsOpen(op)
    /\ ~ret.ok
    /\ \E w \in windows : \E st \in op.arg : StageLabel(st) = w.label

\* a reload has just replaced the Package
ReloadSucceeded ==
    /\ \/ op.name = "menu_reload" /\ ~op.arg.dirty
       \/ op.name = "dialog_answer" /\ op.arg.result
    /\ logged = <<>>

\* the last handler changed the visible document
DocumentChanged ==
    \/ op.name = "save_scene"
    \/ op.name = "delete_scene" /\ ret.ok
    \/ op.name = "menu_import_offset" /\ op.arg
    \/ ReloadSucceeded

C11_CloseStep ==
    op'.name = "close_requested" =>
        /\ op'.arg.prompted = EDITED
        /\ UNCHANGED <<PROJECT, EDITED, mainTitle>>
        /\ running' = (EDITED /\ ~op'.arg.do_close)

\* C11: a close request with the dirty flag clear ends the process without
\* a prompt; with the flag set a yes/no prompt is shown, "yes" ends the
\* process and "no" keeps it running with the Package and the flag as they
\* were; the close path never ends the process while dirty without a "yes".
C11_CloseGate == [][C11_CloseStep]_vars

\* the user has just answered "no" to the close prompt: the process runs on
\* with its unsaved scenes
C11_Witness ==
    /\ op.name = "close_requested"
    /\ op.arg.prompted
    /\ ~op.arg.do_close
    /\ running
    /\ EDITED
    /\ PROJECT.scenes # <<>>

\* a reload whose load failed: the Package, the flag and the title are as
\* before, nothing is emitted, and the log holds the one error
C12_FailedStep ==
    (op'.name \in {"menu_reload", "dialog_answer"} /\ op'.arg.failed) =>
        /\ UNCHANGED <<PROJECT, EDITED, mainTitle>>
        /\ emitted' = <<>>
        /\ Len(logged') = 1
        /\ logged'[1].level = "error"

\* C12: when the load of Open Project fails, the Package is left untouched,
\* the dirty flag keeps its value, the main window's title is not changed
\* and no "on_project_update" is emitted; the error is logged and nothing
\* else happens.
C12_FailedLoadChangesNothing == [][C12_FailedStep]_vars

\* the load has just failed after the user confirmed Open Project: the
\* unsaved scenes, the set flag and the starred title are still there
C12_Witness ==
    /\ op.name = "dialog_answer"
    /\ op.arg.failed
    /\ EDITED
    /\ PROJECT.scenes # <<>>
    /\ ends_with_star(mainTitle)
    /\ HasError(logged)

\* positions in a handler's messages
Sent(em, name) == {i \in 1..Len(em) : em[i].event = name}

\* a step of stage_save_and_close by window u: one "on_stage_saved", sent
\* through the app handle to MAIN_WINDOW with the arguments as its payload;
\* one close message, of u, after it; and u is no longer a live window
C13_SaveAndCloseStep ==
    op'.name = "stage_save_and_close" =>
        LET u == op'.caller
            saved == Sent(emitted', "on_stage_saved")
            closed == Sent(emitted', "close")
        IN  /\ u \in LiveUids
            /\ Cardinality(saved) = 1
            /\ Cardinality(closed) = 1
            /\ \A i \in saved :
                  /\ emitted'[i].to = MAIN_WINDOW
                  /\ emitted'[i].via = AppId
                  /\ emitted'[i].payload = op'.arg
                  /\ \A j \in closed : i < j /\ emitted'[j].via = u
            /\ windows' = {w \in windows : w.uid # u}

\* C13: stage_save_and_close(scene, positions, stage) sends exactly one
\* "on_stage_saved", addressed to the main window only, carrying exactly
\* the scene id, stage and positions given, and then closes the calling
\* window: the notification is sent before the window is closed.
C13_SaveAndClose == [][C13_SaveAndCloseStep]_vars

\* a stage-editor window has just saved and closed while another one, whose
\* stage is not the one saved, stays open
C13_Witness ==
    /\ op.name = "stage_save_and_close"
    /\ emitted[1].event = "on_stage_saved"
    /\ emitted[1].payload.stage.id = 2
    /\ \E w \in windows : w.label # StageLabel(op.arg.stage)

OrchestratorOps ==
    {"open_stage_editor", "open_stage_editor_from", "on_request_data",
     "stage_save_and_close"}

\* a step of the orchestrator writes neither the Package nor the flag; a
\* save_scene changes no pending listener, no payload handed to a window
\* and no delivery; and what a ready signal delivers is the payload handed
\* over when the window was opened
C14_Step ==
    /\ op'.name \in OrchestratorOps => UNCHANGED <<PROJECT, EDITED>>
    /\ op'.name = "save_scene" => UNCHANGED <<listeners, handed, delivered>>
    /\ (op'.name = "on_request_data" /\ emitted' # <<>>) =>
          handed[op'.caller] = {emitted'[1].payload}

\* the payload a pending listener owns is the one handed over at the open
C14_PendingIsHanded ==
    \A l \in listeners : l.uid \in LiveUids => handed[l.uid] = {l.payload}

\* C14: open_stage_editor, open_stage_editor_from, the ready handshake and
\* stage_save_and_close leave the Package and the dirty flag unchanged, and
\* a window's payload is its own copy: a save_scene after the hand-off
\* changes neither a pending payload nor what is then delivered.
C14_OrchestratorFrame == [](C14_PendingIsHanded) /\ [][C14_Step]_vars

\* a payload has just been delivered whose positions are no longer those
\* the Package holds for its scene: the scene was saved after the hand-off
C14_Witness ==
    /\ op.name = "on_request_data"
    /\ emitted # <<>>
    /\ emitted[1].payload.scene \in Ids(PROJECT.scenes)
    /\ emitted[1].payload.positions #
          LivePositions(emitted[1].payload.scene, emitted[1].payload.positions)
    /\ EDITED

\* no handler is in progress and no dialog is open
Quiescent == \A t \in Threads : IsIdle(t)

\* C15: whenever no command is in progress, the dirty flag is set if a
\* save_scene or a delete_scene changed the Package since the last
\* successful save, however the commands and the Save were interleaved.
C15_DirtyWhenUnsaved == (Quiescent /\ unsaved) => EDITED

\* the gate passed (the flag read clear, or the dialog answered "yes"), the
\* thread stands before PROJECT.lock() of reload_project: the gate neither
\* locked PROJECT nor changed it
C16_GateStep ==
    LET passed(t) == /\ UNCHANGED <<PROJECT, lock>>
                     /\ t \notin lock
                     /\ thr'[t].cmd = "reload_project"
                     /\ thr'[t].at = "lock"
    IN  /\ (op'.name = "menu_reload_gate" /\ ~op'.arg.dirty) => passed(MainThread)
        /\ (op'.name = "dialog_callback" /\ op'.arg.result) => passed(op'.caller)

\* while a reload_project stands between the gate and its lock, a worker
\* that is free can set the dirty flag, and the reload locks PROJECT as soon
\* as it is free, whatever the flag has become
C16_Window ==
    \A t \in Threads : (running /\ PastGate(t)) =>
        /\ t \notin lock
        /\ \A w \in Workers : IsIdle(w) =>
               ENABLED (\E sc \in ActiveScenes : save_scene_mark(w, sc))
        /\ lock = {} => ENABLED Acquire(t)

\* C16: the dirty check of New / Open Project and the reset or load are two
\* steps with PROJECT unlocked in between: the gate leaves the thread before
\* the lock of reload_project, where a command can still set the flag and
\* change the Package, and the reload then runs without reading the flag
\* again.
C16_CheckThenReload == [](C16_Window) /\ [][C16_GateStep]_vars

\* New Project has just emptied the Package without a prompt: the Package
\* had no unsaved change when the gate read the flag clear; a save_scene
\* set the flag and stored its scene before reload_project locked PROJECT
C16_Witness ==
    /\ op.name = "reload_project"
    /\ op.caller = MainThread
    /\ op.arg.id = NEW_PROJECT
    /\ ~op.arg.had
    /\ op.arg.raced
    /\ op.arg.unsaved
    /\ PROJECT = Package_new
    /\ EDITED

\* a step that takes the dirty flag from true to false is a save that
\* succeeded
C17_ClearStep ==
    (EDITED /\ ~EDITED') => (op'.name = "menu_save" /\ op'.arg.ok)

\* C17: the dirty flag goes from true to false only when Save / Save As
\* succeeds; New Project, Open Project, build, import_offset, the dark mode
\* toggle, the scene and stage commands and a vetoed close never clear it.
C17_ClearedOnlyBySave == [][C17_ClearStep]_vars

\* a save has just succeeded and cleared the flag that save_scene had set,
\* with a stage-editor window open
C17_Witness ==
    /\ op.name = "menu_save"
    /\ op.arg.ok
    /\ ~EDITED
    /\ PROJECT.scenes = <<FlagScene>>
    /\ windows # {}

\* thread t waits for the answer to a confirmation dialog
Prompting(t) == thr[t].at = "prompt"

\* a thread that waits for an answer holds no lock and has locked nothing
\* in its handler so far; and while it waits, a handler that wants PROJECT
\* gets it when it is free
C18_PromptUnlocked ==
    \A t \in Threads : (running /\ Prompting(t)) =>
        /\ t \notin lock
        /\ thr[t].n = 0
        /\ lock = {} => \A w \in Threads : thr[w].at = "lock" => ENABLED Acquire(w)

\* the gates read the flag and show their dialog without locking; "no"
\* ends the handler with no lock taken; and reload_project locks only from
\* its first statement, which the gate or a "yes" leads to
C18_Step ==
    /\ op'.name \in {"menu_reload_gate", "close_requested", "dialog_callback",
                      "close_answer"} =>
          lock' = lock /\ op'.caller \notin lock
    /\ \A t \in Threads :
          (thr[t].cmd = "reload_project" /\ t \in lock' /\ t \notin lock) =>
             thr[t].at = "lock"
    /\ \A t \in Threads : (Prompting(t) /\ IsIdle(t)') => thr'[t].n = 0

\* C18: PROJECT is not locked by a handler while its confirmation dialog
\* waits for the answer: on the menu path and on the close path the flag is
\* read and the dialog shown with the lock not held, the lock is taken only
\* afterwards, by reload_project after a "yes", and other commands can lock
\* PROJECT while a dialog is open.
C18_PromptOutsideLock == [](C18_PromptUnlocked) /\ [][C18_Step]_vars

\* the menu dialog and the close dialog are both open while a save_scene on
\* a worker holds PROJECT
C18_Witness ==
    /\ In(MainThread, "window_event_listener", "prompt")
    /\ \E d \in DialogThreads : In(d, "reload_project", "prompt")
    /\ \E w \in Workers : lock = {w} /\ In(w, "save_scene", "locked")

\* thread t has called PROJECT.lock() and waits for it
Wants(t) == thr[t].at = "lock"
Holds(t) == t \in lock

\* one thread at most holds PROJECT; a handler that waits for it does not
\* hold it and has not locked it before; a handler locks it once at most
\* and has let it go when it has returned
C19_LockedOnce ==
    /\ Cardinality(lock) <= 1
    /\ \A t \in Threads :
          /\ thr[t].n <= 1
          /\ Wants(t) => (~Holds(t) /\ thr[t].n = 0)
          /\ Holds(t) => (thr[t].n = 1 /\ thr[t].at \in {"locked", "saved"})
          /\ IsIdle(t) => ~Holds(t)

\* PROJECT is taken only when free, by a handler that waits for it, and a
\* handler stops waiting only by taking it; save_scene sets the flag in a
\* step in which it does not hold PROJECT
C19_Step ==
    /\ \A t \in Threads :
          /\ (Holds(t)' /\ ~Holds(t)) => (lock = {} /\ Wants(t))
          /\ (Wants(t) /\ ~Wants(t)') => Holds(t)'
    /\ op'.name = "save_scene_mark" =>
          (EDITED' /\ op'.caller \notin lock /\ op'.caller \notin lock')

\* C19: under fair scheduling every handler that waits for PROJECT or holds
\* it returns with PROJECT let go (unless the process exits first), and a
\* waiting handler gets there only by taking PROJECT; no handler locks
\* PROJECT twice or while it holds it, and save_scene sets the dirty flag
\* before it locks, not while.
C19_NoDeadlock ==
    /\ [](C19_LockedOnce)
    /\ [][C19_Step]_vars
    /\ \A t \in Threads :
          (Wants(t) \/ Holds(t)) ~> ((IsIdle(t) /\ ~Holds(t)) \/ ~running)

\* three handlers contend: the save arm holds PROJECT while save_scene on a
\* worker and reload_project on a dialog thread wait for it
C19_Witness ==
    /\ Holds(MainThread)
    /\ In(MainThread, "menu_save", "locked")
    /\ \E w \in Workers : In(w, "save_scene", "lock")
    /\ \E d \in DialogThreads : In(d, "reload_project", "lock")

\* a ready signal of a window delivers nothing but the payload handed to
\* that window, and leaves every other window's listener pending and every
\* other window's deliveries as they were
C20_Step ==
    op'.name = "on_request_data" =>
        /\ \A i \in 1..Len(emitted') :
              /\ emitted'[i].event = "on_data_received"
              /\ emitted'[i].via = op'.caller
              /\ emitted'[i].payload \in handed[op'.caller]
        /\ \A v \in Uids \ {op'.caller} :
              /\ delivered'[v] = delivered[v]
              /\ {l \in listeners' : l.uid = v} = {l \in listeners : l.uid = v}

\* a payload just delivered was sent to no stage-editor window but its own
C20_OwnPayloadOnly ==
    op.name = "on_request_data" =>
        \A i \in 1..Len(emitted) :
            \A v \in Targets(emitted[i]) \ {MainId} :
                emitted[i].payload \in handed[v]

\* C20: with several stage-editor windows open, a ready signal of window W
\* delivers W's own payload only, W is sent no other window's payload, and
\* W's ready signal neither consumes nor fires another window's pending
\* listener, however opens, ready signals and closes interleave.
C20_Independent == [](C20_OwnPayloadOnly) /\ [][C20_Step]_vars

====
